---- MODULE Spec2Model ----
(***************************************************************************)
(* Model of geomagio/edge/EdgeFactory.py: the EdgeFactory class, its two   *)
(* public operations get_timeseries and put_timeseries, the code mapper    *)
(* (the _get_edge_ methods), the window chunker (_put_trace) and the gap   *)
(* reconciler (_clean_timeseries).                                         *)
(*                                                                         *)
(* Times are whole seconds.  Every call made on a collaborator (the        *)
(* earthworm client's getWaveform, the RawInputClient's constructor,       *)
(* create_seedname, send, forceout and close) is appended to `calls` in    *)
(* the order the code makes it, also when the call raises.                 *)
(* Sample values are carried on the read path; on the write path a trace   *)
(* is its start time and its number of samples, which is all the chunker   *)
(* reads of it (len(trace.data), trace.stats.starttime).                   *)
(***************************************************************************)
EXTENDS Integers, Sequences, FiniteSets, TLC

HOURSECONDS == 3600
DAYMINUTES == 1440

\* Python's None for a string-valued attribute or argument.
None == "None"
\* An absent time attribute.
NoTime == -1

----------------------------------------------------------------------------
(* Bounds of the explored inputs.                                          *)

\* Longest channel list passed to get_timeseries / put_timeseries.
MaxChannels == 2
\* Most samples in a trace returned by getWaveform.
MaxSamples == 4
\* Largest number of sample intervals between the requested start and the
\* first sample of a returned trace.
MaxLead == 2

Letters == {"H", "E", "X"}
ArgTypes == {None, "quasi-definitive", "definitive", "adjusted"}
ArgIntervals == {None, "minute", "second", "year"}
SelfIntervals == {"minute", "second", "hourly"}
LocationCodes == {None, "R1"}
Deltas == {1, 60}

RECURSIVE SeqsUpTo(_, _)
SeqsUpTo(S, n) ==
  IF n = 0 THEN {<<>>}
  ELSE LET shorter == SeqsUpTo(S, n - 1)
       IN shorter \cup {Append(s, x) : s \in {t \in shorter : Len(t) = n - 1}, x \in S}

\* Channel lists a caller passes; <<>> stands for a falsy argument (None or
\* an empty list), which `channels or self.channels` replaces.
ChannelLists == SeqsUpTo(Letters, MaxChannels)

----------------------------------------------------------------------------
(* Argument resolution: `x or self.x`.                                     *)

OrStr(arg, default) == IF arg \in {None, ""} THEN default ELSE arg
OrSeq(arg, default) == IF arg = <<>> THEN default ELSE arg

----------------------------------------------------------------------------
(* Code mapper.  A raised TimeseriesFactoryException is the value Raise.   *)

Raise(kind) == [raised |-> TRUE, kind |-> kind, value |-> <<>>]
Return(v) == [raised |-> FALSE, kind |-> "none", value |-> v]

_get_edge_network(observatory, channel, type, interval) == "NT"

_get_edge_station(observatory, channel, type, interval) == observatory

_get_interval_code(interval) ==
  IF interval = "daily" THEN Return(<<"D">>)
  ELSE IF interval = "hourly" THEN Return(<<"H">>)
  ELSE IF interval = "minute" THEN Return(<<"M">>)
  ELSE IF interval = "second" THEN Return(<<"S">>)
  ELSE Raise("interval")

\* A channel code is the sequence of its characters.
_get_edge_channel(observatory, channel, type, interval) ==
  LET edge_interval_code == _get_interval_code(interval)
  IN IF edge_interval_code.raised THEN edge_interval_code
     ELSE IF channel = "D" THEN Return(edge_interval_code.value \o <<"V", "D">>)
     ELSE IF channel = "E" THEN Return(edge_interval_code.value \o <<"V", "E">>)
     ELSE IF channel = "F" THEN Return(edge_interval_code.value \o <<"S", "F">>)
     ELSE IF channel = "H" THEN Return(edge_interval_code.value \o <<"V", "H">>)
     ELSE IF channel = "Z" THEN Return(edge_interval_code.value \o <<"V", "Z">>)
     ELSE Raise("channel")

\* locationCode is self.locationCode.
_get_edge_location(locationCode, observatory, channel, type, interval) ==
  IF locationCode # None THEN locationCode
  ELSE IF type = "variation" THEN "R0"
  ELSE IF type = "quasi-definitive" THEN "Q0"
  ELSE IF type = "definitive" THEN "D0"
  ELSE None

\* The identity a create_seedname call is made with: its four arguments,
\* station, channel, location, network (getWaveform takes the same four).
create_seedname(station, channel, location, network) ==
  [station |-> station, channel |-> channel, location |-> location,
   network |-> network]

NoSeedname == create_seedname(None, <<>>, None, None)

----------------------------------------------------------------------------
(* Samples.  A value is a fraction num/den; NaN and a masked entry of a    *)
(* MaskedArray are values of their own.                                    *)

Value(num, den) == [kind |-> "number", num |-> num, den |-> den]
NaN == [kind |-> "nan", num |-> 0, den |-> 1]
Masked == [kind |-> "masked", num |-> 0, den |-> 1]

\* numpy.full(cnt, numpy.nan)
Full(cnt) == [j \in 1..cnt |-> NaN]

\* A trace: trace.stats.starttime, trace.stats.delta, trace.data, the
\* channel written by _set_metadata, and the attribute `endttime` that
\* _clean_timeseries sets on trace.stats.
Trace(channel, starttime, delta, data) ==
  [channel |-> channel, starttime |-> starttime, delta |-> delta,
   data |-> data, endttime |-> NoTime]

\* obspy derives trace.stats.endtime from starttime, npts and delta.
StatsEndtime(trace) ==
  trace.starttime + (Len(trace.data) - 1) * trace.delta

----------------------------------------------------------------------------
(* Read path: post-processing.                                             *)

\* numpy.divide(trace.data, 1000.00) on each trace.
_convert_trace_to_decimal(stream) ==
  [t \in DOMAIN stream |->
     [stream[t] EXCEPT !.data =
        [j \in DOMAIN stream[t].data |->
           IF stream[t].data[j].kind = "number"
           THEN Value(stream[t].data[j].num, stream[t].data[j].den * 1000)
           ELSE stream[t].data[j]]]]

\* set_fill_value(nan); filled()
Filled(stream) ==
  [t \in DOMAIN stream |->
     [stream[t] EXCEPT !.data =
        [j \in DOMAIN stream[t].data |->
           IF stream[t].data[j].kind = "masked" THEN NaN
           ELSE stream[t].data[j]]]]

\* int(x / delta) for a difference x of two times: truncation toward zero.
PadCount_OffByOne(x, delta) == (x \div delta) + 1

PadCount(x, delta) ==
  IF x >= 0 THEN x \div delta ELSE -((-x) \div delta)

_clean_trace(trace, starttime, endtime) ==
  LET trace_starttime == trace.starttime
      trace_endtime == StatsEndtime(trace)
      front == IF trace.starttime > starttime
               THEN [trace EXCEPT
                       !.data = Full(PadCount(trace_starttime - starttime,
                                              trace.delta)) \o trace.data,
                       !.starttime = starttime]
               ELSE trace
  IN IF trace_endtime < endtime
     THEN [front EXCEPT
             !.data = front.data \o Full(PadCount(endtime - trace_endtime,
                                                  trace.delta)),
             !.endttime = endtime]
     ELSE front

_clean_timeseries(timeseries, starttime, endtime) ==
  [t \in DOMAIN timeseries |-> _clean_trace(timeseries[t], starttime, endtime)]

----------------------------------------------------------------------------
(* Inputs.                                                                 *)

\* A gap-free trace of the input stream, as the chunker reads it.
Seg(starttime, npts) == [starttime |-> starttime, npts |-> npts]

\* What the input stream of put_timeseries holds for one channel: whether
\* select(channel) finds a trace, and the gap-free traces split() yields.
Absent == [present |-> FALSE, segs |-> <<>>]
Present(segs) == [present |-> TRUE, segs |-> segs]

Streams ==
  { [H |-> Absent, E |-> Absent, X |-> Absent],
    [H |-> Present(<<Seg(0, 10000)>>), E |-> Absent,
     X |-> Present(<<Seg(0, 1)>>)],
    [H |-> Present(<<Seg(0, 1440), Seg(90000, 3601)>>),
     E |-> Present(<<Seg(0, 3600)>>), X |-> Absent],
    [H |-> Present(<<Seg(60, 1441)>>),
     E |-> Present(<<Seg(60, 1), Seg(600, 2)>>), X |-> Absent],
    [H |-> Present(<<>>), E |-> Present(<<Seg(0, 1)>>),
     X |-> Present(<<Seg(0, 1)>>)] }

\* Requested [starttime, endtime] of get_timeseries.
Requests == {<<60, 240>>, <<120, 120>>, <<240, 60>>}

\* Samples as the waveserver stores them: integer counts, the second one
\* masked by merge() when `gap`.
RawData(n, gap) ==
  [j \in 1..n |-> IF gap /\ j = 2 THEN Masked ELSE Value(1500 * j, 1)]

\* The merged streams getWaveform may return for a request: no trace, or
\* one trace.
Responses(starttime, endtime) ==
  {<<>>} \cup
  { <<Trace(None, starttime + lead * delta, delta,
            RawData(MaxSamples, TRUE))>> :
      delta \in Deltas, lead \in {0, MaxLead} }

----------------------------------------------------------------------------
(* State.                                                                  *)

VARIABLES
  factory,     \* self: observatory, channels, type, interval, locationCode
  pc,          \* position in the running operation
  err,         \* the exception that ended the operation, "none" if none
  call,        \* the operation and its resolved arguments
  stream,      \* put_timeseries: the input stream
  chIdx,       \* position of `for channel in channels`
  segs,        \* put_timeseries: timeseries.select(channel).split()
  segIdx,      \* position of `for trace in ...split()`
  pt,          \* locals of _put_trace
  calls,       \* calls made on the collaborators, in order
  warnings,    \* channels reported missing on stderr
  timeseries,  \* get_timeseries: the stream being built
  before       \* the stream as it was handed to _clean_timeseries

vars == <<factory, pc, err, call, stream, chIdx, segs, segIdx, pt, calls,
          warnings, timeseries, before>>

CallRec(op, seedname, nsamp, starttime, endtime, samplerate, ok) ==
  [op |-> op, seedname |-> seedname, nsamp |-> nsamp,
   starttime |-> starttime, endtime |-> endtime, samplerate |-> samplerate,
   ok |-> ok]

PlainCall(op) == CallRec(op, NoSeedname, 0, NoTime, NoTime, <<0, 1>>, TRUE)

NoCall ==
  [op |-> "none", starttime |-> NoTime, endtime |-> NoTime,
   observatory |-> None, channels |-> <<>>, type |-> None,
   interval |-> None]

NoPt ==
  [station |-> None, location |-> None, network |-> None,
   edge_channel |-> <<>>, totalsamps |-> 0, starttime |-> NoTime,
   nsamp |-> 0, timeoffset |-> 0, i |-> 0, step |-> 0,
   seedname |-> NoSeedname, bound |-> FALSE]

NoStream == [H |-> Absent, E |-> Absent, X |-> Absent]

\* EdgeFactory.__init__
Init ==
  /\ factory \in [observatory : {"BOU"}, channels : {<<"H">>},
                  type : {"variation"}, interval : SelfIntervals,
                  locationCode : LocationCodes]
  /\ pc = "idle"
  /\ err = "none"
  /\ call = NoCall
  /\ stream = NoStream
  /\ chIdx = 0
  /\ segs = <<>>
  /\ segIdx = 0
  /\ pt = NoPt
  /\ calls = <<>>
  /\ warnings = <<>>
  /\ timeseries = <<>>
  /\ before = <<>>

----------------------------------------------------------------------------
(* get_timeseries                                                          *)

Raised(kind) ==
  /\ pc' = "raised"
  /\ err' = kind

InvalidRange_Never(starttime, endtime) == FALSE

\* `if starttime > endtime: raise`
InvalidRange(starttime, endtime) == starttime > endtime

\* Entry of get_timeseries: the arguments are resolved, the range checked.
GetTimeseries ==
  /\ pc = "idle"
  /\ \E req \in Requests, channels \in ChannelLists, type \in ArgTypes,
        interval \in ArgIntervals :
       /\ call' = [op |-> "get", starttime |-> req[1], endtime |-> req[2],
                   observatory |-> OrStr(None, factory.observatory),
                   channels |-> OrSeq(channels, factory.channels),
                   type |-> OrStr(type, factory.type),
                   interval |-> OrStr(interval, factory.interval)]
       /\ IF InvalidRange(req[1], req[2])
          THEN Raised("range") /\ chIdx' = chIdx
          ELSE pc' = "get_channel" /\ err' = err /\ chIdx' = 1
  /\ timeseries' = <<>>
  /\ UNCHANGED <<factory, stream, segs, segIdx, pt, calls, warnings, before>>

\* One iteration of `for channel in channels`: _get_timeseries.
GetChannel ==
  /\ pc = "get_channel"
  /\ chIdx <= Len(call.channels)
  /\ LET channel == call.channels[chIdx]
         station == _get_edge_station(call.observatory, channel, call.type,
                                      call.interval)
         location == _get_edge_location(factory.locationCode,
                                        call.observatory, channel, call.type,
                                        call.interval)
         network == _get_edge_network(call.observatory, channel, call.type,
                                      call.interval)
         edge_channel == _get_edge_channel(call.observatory, channel,
                                           call.type, call.interval)
         query(ok) == CallRec("getWaveform",
                              create_seedname(station, edge_channel.value,
                                              location, network),
                              0, call.starttime, call.endtime, <<0, 1>>, ok)
     IN IF edge_channel.raised
        THEN /\ Raised(edge_channel.kind)
             /\ UNCHANGED <<calls, timeseries, chIdx>>
        ELSE \/ /\ calls' = Append(calls, query(FALSE))
                /\ Raised("transport")
                /\ UNCHANGED <<timeseries, chIdx>>
             \/ \E data \in Responses(call.starttime, call.endtime) :
                  /\ calls' = Append(calls, query(TRUE))
                  /\ timeseries' = timeseries \o
                       [t \in DOMAIN data |->
                          [data[t] EXCEPT !.channel = channel]]
                  /\ chIdx' = chIdx + 1
                  /\ UNCHANGED <<pc, err>>
  /\ UNCHANGED <<factory, call, stream, segs, segIdx, pt, warnings, before>>

\* _post_process up to its call of _clean_timeseries.
PostProcess ==
  /\ pc = "get_channel"
  /\ chIdx > Len(call.channels)
  /\ timeseries' = Filled(_convert_trace_to_decimal(timeseries))
  /\ pc' = "clean"
  /\ UNCHANGED <<factory, err, call, stream, chIdx, segs, segIdx, pt, calls,
                 warnings, before>>

\* _clean_timeseries, then get_timeseries returns.
CleanTimeseries ==
  /\ pc = "clean"
  /\ before' = timeseries
  /\ timeseries' = _clean_timeseries(timeseries, call.starttime, call.endtime)
  /\ pc' = "done"
  /\ UNCHANGED <<factory, err, call, stream, chIdx, segs, segIdx, pt, calls,
                 warnings>>

----------------------------------------------------------------------------
(* put_timeseries                                                          *)

\* Entry of put_timeseries: the arguments are resolved and the
\* RawInputClient is constructed.
PutTimeseries ==
  /\ pc = "idle"
  /\ \E st \in Streams, channels \in ChannelLists, type \in ArgTypes,
        interval \in ArgIntervals :
       /\ stream' = st
       /\ call' = [op |-> "put", starttime |-> NoTime, endtime |-> NoTime,
                   observatory |-> OrStr(None, factory.observatory),
                   channels |-> OrSeq(channels, factory.channels),
                   type |-> OrStr(type, factory.type),
                   interval |-> OrStr(interval, factory.interval)]
  /\ calls' = Append(calls, PlainCall("RawInputClient"))
  /\ chIdx' = 1
  /\ pc' = "put_channel"
  /\ UNCHANGED <<factory, err, segs, segIdx, pt, warnings, timeseries, before>>

PutSkip_Fatal ==
  /\ pc = "put_channel"
  /\ chIdx <= Len(call.channels)
  /\ ~stream[call.channels[chIdx]].present
  /\ Raised("missing")
  /\ UNCHANGED <<factory, call, stream, chIdx, segs, segIdx, pt, calls,
                 warnings, timeseries, before>>

\* `if timeseries.select(channel=channel).count() == 0: ... continue`
PutSkip ==
  /\ pc = "put_channel"
  /\ chIdx <= Len(call.channels)
  /\ ~stream[call.channels[chIdx]].present
  /\ warnings' = Append(warnings, call.channels[chIdx])
  /\ chIdx' = chIdx + 1
  /\ UNCHANGED <<factory, pc, err, call, stream, segs, segIdx, pt, calls,
                 timeseries, before>>

\* _convert_stream_to_masked and `timeseries.select(channel).split()`.
PutSelect ==
  /\ pc = "put_channel"
  /\ chIdx <= Len(call.channels)
  /\ stream[call.channels[chIdx]].present
  /\ segs' = stream[call.channels[chIdx]].segs
  /\ IF stream[call.channels[chIdx]].segs = <<>>
     THEN chIdx' = chIdx + 1 /\ UNCHANGED <<pc, segIdx>>
     ELSE pc' = "put_trace" /\ segIdx' = 1 /\ chIdx' = chIdx
  /\ UNCHANGED <<factory, err, call, stream, pt, calls, warnings, timeseries,
                 before>>

\* The window parameters _put_trace takes from self.interval; `bound` is
\* FALSE when neither branch assigns them.
WindowParams(selfInterval) ==
  IF selfInterval = "second"
  THEN [bound |-> TRUE, nsamp |-> HOURSECONDS, timeoffset |-> 1]
  ELSE IF selfInterval = "minute"
  THEN [bound |-> TRUE, nsamp |-> DAYMINUTES, timeoffset |-> 60]
  ELSE [bound |-> FALSE, nsamp |-> 0, timeoffset |-> 0]

\* _put_trace up to the start of its loop over the windows.
PutTrace ==
  /\ pc = "put_trace"
  /\ LET trace == segs[segIdx]
         channel == call.channels[chIdx]
         station == _get_edge_station(call.observatory, channel, call.type,
                                      call.interval)
         location == _get_edge_location(factory.locationCode,
                                        call.observatory, channel, call.type,
                                        call.interval)
         network == _get_edge_network(call.observatory, channel, call.type,
                                      call.interval)
         edge_channel == _get_edge_channel(call.observatory, channel,
                                           call.type, call.interval)
         params == WindowParams(factory.interval)
     IN IF edge_channel.raised
        THEN Raised(edge_channel.kind) /\ pt' = pt
        ELSE IF ~params.bound
        THEN Raised("unbound") /\ pt' = pt
        ELSE /\ pt' = [station |-> station, location |-> location,
                       network |-> network,
                       edge_channel |-> edge_channel.value,
                       totalsamps |-> trace.npts,
                       starttime |-> trace.starttime,
                       nsamp |-> params.nsamp,
                       timeoffset |-> params.timeoffset,
                       i |-> 0, step |-> params.nsamp,
                       seedname |-> NoSeedname, bound |-> FALSE]
             /\ pc' = "put_window"
             /\ err' = err
  /\ UNCHANGED <<factory, call, stream, chIdx, segs, segIdx, calls, warnings,
                 timeseries, before>>

EndSample_Overrun(totalsamps, i, nsamp) == i + nsamp

\* `if totalsamps - i < nsamp: endsample = totalsamps else: i + nsamp`
EndSample(totalsamps, i, nsamp) ==
  IF totalsamps - i < nsamp THEN totalsamps ELSE i + nsamp

\* One iteration of `for i in xrange(0, totalsamps, nsamp)`.
PutWindow ==
  /\ pc = "put_window"
  /\ pt.i < pt.totalsamps
  /\ LET location == OrStr(factory.locationCode, pt.location)
         seedname == create_seedname(pt.station, pt.edge_channel, location,
                                     pt.network)
         endsample == EndSample(pt.totalsamps, pt.i, pt.nsamp)
         nsamp == endsample - pt.i
         endtime == pt.starttime + (nsamp - 1) * pt.timeoffset
         created(ok) == CallRec("create_seedname", seedname, 0, NoTime,
                                NoTime, <<0, 1>>, ok)
         sent(ok) == CallRec("send", seedname, nsamp, pt.starttime, endtime,
                             <<1, pt.timeoffset>>, ok)
     IN \/ /\ calls' = Append(calls, created(FALSE))
           /\ Raised("transport")
           /\ pt' = [pt EXCEPT !.location = location]
        \/ /\ calls' = calls \o <<created(TRUE), sent(FALSE)>>
           /\ Raised("transport")
           /\ pt' = [pt EXCEPT !.location = location,
                               !.seedname = seedname, !.bound = TRUE,
                               !.nsamp = nsamp]
        \/ /\ calls' = calls \o <<created(TRUE), sent(TRUE)>>
           /\ pt' = [pt EXCEPT !.location = location,
                               !.seedname = seedname, !.bound = TRUE,
                               !.nsamp = nsamp,
                               !.starttime = pt.starttime + nsamp * pt.timeoffset,
                               !.i = pt.i + pt.step]
           /\ UNCHANGED <<pc, err>>
  /\ UNCHANGED <<factory, call, stream, chIdx, segs, segIdx, warnings,
                 timeseries, before>>

\* After the last trace of a channel the channel loop goes on; otherwise
\* the next trace is put.
NextTrace ==
  IF segIdx < Len(segs)
  THEN segIdx' = segIdx + 1 /\ pc' = "put_trace" /\ chIdx' = chIdx
  ELSE segIdx' = segIdx /\ pc' = "put_channel" /\ chIdx' = chIdx + 1

ForceOut_Omitted ==
  /\ pc = "put_window"
  /\ pt.i >= pt.totalsamps
  /\ NextTrace
  /\ UNCHANGED <<factory, err, call, stream, segs, pt, calls, warnings,
                 timeseries, before>>

\* `self.ric.forceout(seedname)` at the end of _put_trace.
ForceOut ==
  /\ pc = "put_window"
  /\ pt.i >= pt.totalsamps
  /\ IF ~pt.bound
     THEN Raised("unbound") /\ UNCHANGED <<calls, chIdx, segIdx>>
     ELSE \/ /\ calls' = Append(calls, CallRec("forceout", pt.seedname, 0,
                                               NoTime, NoTime, <<0, 1>>, FALSE))
             /\ Raised("transport")
             /\ UNCHANGED <<chIdx, segIdx>>
          \/ /\ calls' = Append(calls, CallRec("forceout", pt.seedname, 0,
                                               NoTime, NoTime, <<0, 1>>, TRUE))
             /\ NextTrace
             /\ err' = err
  /\ UNCHANGED <<factory, call, stream, segs, pt, warnings, timeseries, before>>

\* `self.ric.close()` after the channel loop; put_timeseries returns.
PutClose ==
  /\ pc = "put_channel"
  /\ chIdx > Len(call.channels)
  /\ calls' = Append(calls, PlainCall("close"))
  /\ pc' = "done"
  /\ UNCHANGED <<factory, err, call, stream, chIdx, segs, segIdx, pt,
                 warnings, timeseries, before>>

----------------------------------------------------------------------------

Next ==
  \/ GetTimeseries
  \/ GetChannel
  \/ PostProcess
  \/ CleanTimeseries
  \/ PutTimeseries
  \/ PutSkip
  \/ PutSelect
  \/ PutTrace
  \/ PutWindow
  \/ ForceOut
  \/ PutClose

Spec == Init /\ [][Next]_vars

----------------------------------------------------------------------------
(* The gap reconciler on its own: _clean_timeseries applied to one trace   *)
(* of any alignment against a requested range.                             *)

CleanRequests == {<<60, 240>>, <<60, 63>>, <<120, 120>>}

\* Samples as _post_process hands them to _clean_timeseries.
CleanData(n, gap) ==
  [j \in 1..n |-> IF gap /\ j = 2 THEN NaN ELSE Value(1500 * j, 1000)]

InitClean ==
  /\ factory \in [observatory : {"BOU"}, channels : {<<"H">>},
                  type : {"variation"}, interval : {"minute"},
                  locationCode : {None}]
  /\ pc = "clean"
  /\ err = "none"
  /\ \E req \in CleanRequests :
       call = [op |-> "get", starttime |-> req[1], endtime |-> req[2],
               observatory |-> factory.observatory,
               channels |-> factory.channels, type |-> factory.type,
               interval |-> factory.interval]
  /\ stream = NoStream
  /\ chIdx = 2
  /\ segs = <<>>
  /\ segIdx = 0
  /\ pt = NoPt
  /\ calls = <<>>
  /\ warnings = <<>>
  /\ \E delta \in Deltas, lead \in (-1)..MaxLead, shift \in {0, 30},
        n \in 1..MaxSamples, gap \in BOOLEAN :
       timeseries = <<Trace("H", call.starttime + lead * delta + shift, delta,
                            CleanData(n, gap))>>
  /\ before = <<>>

NextClean == CleanTimeseries

SpecClean == InitClean /\ [][NextClean]_vars

----------------------------------------------------------------------------
(* Properties.                                                             *)

\* Positions in `calls` of the calls of one operation.
Ops(op) == {k \in DOMAIN calls : calls[k].op = op}

Terminated == pc \in {"done", "raised"}

\* The single-letter channels and the intervals the code mapper accepts.
ChannelLetters == {"D", "E", "F", "H", "Z"}
MapperIntervals == {"daily", "hourly", "minute", "second"}

\* C1: whenever put_timeseries has returned or raised after opening the
\* RawInputClient session, close() has been called exactly once.
C1_ClosedOnEveryExit ==
  (call.op = "put" /\ Terminated /\ Ops("RawInputClient") # {})
    => Cardinality(Ops("close")) = 1

\* C2: put_timeseries with a resolved interval other than minute or second
\* fails before the session is opened: it has raised and no call was made
\* on the RawInputClient, its constructor included.
C2_UnsupportedIntervalFailsFast ==
  (call.op = "put" /\ call.interval \notin {"minute", "second"})
    => (pc = "raised" /\ calls = <<>>)

\* C3: a get_timeseries or put_timeseries call whose channel list holds an
\* invalid channel letter, or whose interval is invalid, never makes a
\* transport call.
C3_MappingErrorsEager ==
  (/\ call.op \in {"get", "put"}
   /\ \/ \E k \in DOMAIN call.channels : call.channels[k] \notin ChannelLetters
      \/ call.interval \notin MapperIntervals)
    => calls = <<>>

\* C4: get_timeseries with starttime > endtime has raised the range error
\* and getWaveform was never called.
C4_RangeCheckedFirst ==
  (call.op = "get" /\ call.starttime > call.endtime)
    => (pc = "raised" /\ err = "range" /\ Ops("getWaveform") = {})

C4_Witness ==
  /\ call.op = "get"
  /\ call.starttime > call.endtime
  /\ pc = "raised"
  /\ call.channels = <<"H", "E">>
  /\ call.interval = "minute"

RateWindow(interval) == IF interval = "second" THEN 3600 ELSE 1440
RateOffset(interval) == IF interval = "second" THEN 1 ELSE 60

\* ceil(n / N)
CeilDiv(n, N) == (n + N - 1) \div N

\* While a trace is being put, the position in `calls` of the send of its
\* window k (from 0), `done` windows having been sent.
SendAt(k, done) == Len(calls) - 2 * (done - 1 - k)

RECURSIVE SumCounts(_, _)
SumCounts(k, done) ==
  IF k = done THEN 0 ELSE calls[SendAt(k, done)].nsamp + SumCounts(k + 1, done)

\* C6: while the chunker puts a gap-free trace of n >= 1 samples starting
\* at T0, with N = 3600 and 1 s per sample at second rate (N = 1440 and
\* 60 s at minute rate), the sends made so far for the trace are windows
\* 0, 1, ... in order: window k starts at T0 + k*N*timeoffset and has N
\* samples, except the last, which has n - k*N; every count is in 1..N;
\* when the loop is over there are ceil(n/N) sends and the counts sum to n.
C6_Chunker ==
  (call.op = "put" /\ pc = "put_window") =>
    LET n == segs[segIdx].npts
        T0 == segs[segIdx].starttime
        N == RateWindow(factory.interval)
        timeoffset == RateOffset(factory.interval)
        done == pt.i \div pt.step
    IN /\ n >= 1
       /\ done <= CeilDiv(n, N)
       /\ \A k \in 0..(done - 1) :
            LET rec == calls[SendAt(k, done)]
            IN /\ rec.op = "send"
               /\ rec.ok
               /\ rec.starttime = T0 + k * N * timeoffset
               /\ rec.nsamp = IF k < CeilDiv(n, N) - 1 THEN N ELSE n - k * N
               /\ rec.nsamp >= 1
               /\ rec.nsamp <= N
               /\ rec.endtime = rec.starttime + (rec.nsamp - 1) * timeoffset
       /\ pt.i >= pt.totalsamps =>
            /\ done = CeilDiv(n, N)
            /\ SumCounts(0, done) = n

C6_Witness ==
  /\ call.op = "put"
  /\ pc = "put_window"
  /\ factory.interval = "second"
  /\ segs[segIdx] = Seg(0, 10000)
  /\ pt.i >= pt.totalsamps
  /\ Len(calls) = 7
  /\ <<calls[3].nsamp, calls[5].nsamp, calls[7].nsamp>> = <<3600, 3600, 2800>>
  /\ <<calls[3].starttime, calls[5].starttime, calls[7].starttime>>
       = <<0, 3600, 7200>>

\* C7: _clean_timeseries makes a trace span the requested range.  For a
\* trace of interval dt whose first sample time s >= start and last sample
\* time e <= end, with s - start and end - e whole multiples of dt, the
\* result starts at start, has (end - start)/dt + 1 samples: (s - start)/dt
\* NaN, then the original samples in order, then (end - e)/dt NaN; a trace
\* that covers [start, end] already is unchanged.
C7_CleanSpansRange ==
  (call.op = "get" /\ pc = "done") =>
    \A t \in DOMAIN before :
      LET b == before[t]
          a == timeseries[t]
          dt == b.delta
          s == b.starttime
          e == b.starttime + (Len(b.data) - 1) * dt
          lead == (s - call.starttime) \div dt
          trail == (call.endtime - e) \div dt
      IN (/\ s >= call.starttime
          /\ e <= call.endtime
          /\ (s - call.starttime) % dt = 0
          /\ (call.endtime - e) % dt = 0)
         => /\ a.starttime = call.starttime
            /\ Len(a.data) = (call.endtime - call.starttime) \div dt + 1
            /\ Len(a.data) = lead + Len(b.data) + trail
            /\ \A j \in 1..lead : a.data[j] = NaN
            /\ \A j \in 1..Len(b.data) : a.data[lead + j] = b.data[j]
            /\ \A j \in 1..trail : a.data[lead + Len(b.data) + j] = NaN
            /\ a.delta = dt
            /\ (lead = 0 /\ trail = 0) => a = b

C7_Witness ==
  /\ call.op = "get"
  /\ pc = "done"
  /\ Len(before) = 1
  /\ before[1].starttime = call.starttime + 2 * before[1].delta
  /\ before[1].starttime + (Len(before[1].data) - 1) * before[1].delta
       = call.endtime
  /\ Len(timeseries[1].data) = Len(before[1].data) + 2
  /\ timeseries[1].data[1] = NaN
  /\ timeseries[1].data[2] = NaN
  /\ timeseries[1].data[3] = before[1].data[1]
  /\ timeseries[1].starttime = call.starttime

\* The channels of `chans` that the stream has no trace for, in order.
MissingOf(chans) == SelectSeq(chans, LAMBDA c : ~stream[c].present)

\* One entry per trace put to the end, in the order of the channel list.
RECURSIVE TracesOf(_)
TracesOf(chans) ==
  IF chans = <<>> THEN <<>>
  ELSE [j \in 1..Len(stream[Head(chans)].segs) |-> Head(chans)]
         \o TracesOf(Tail(chans))

\* The channel letters of the forceout calls, in order.
RECURSIVE FlushedFrom(_)
FlushedFrom(k) ==
  IF k > Len(calls) THEN <<>>
  ELSE IF calls[k].op = "forceout"
  THEN <<calls[k].seedname.channel[3]>> \o FlushedFrom(k + 1)
  ELSE FlushedFrom(k + 1)

\* C8: put_timeseries skips a requested channel that has no trace in the
\* stream without failing.  The channels passed so far that are absent
\* are exactly the warnings written, in order; no create_seedname or send
\* is made for an absent channel; the call never raises at an absent
\* channel; when it returns, every channel of the list has been passed,
\* the traces of the present ones were put in list order, and close was
\* called exactly once, as the last call; with every channel absent the
\* call returns having only opened and closed the session.
C8_AbsentChannelSkipped ==
  call.op = "put" =>
    /\ warnings = MissingOf(SubSeq(call.channels, 1, chIdx - 1))
    /\ \A k \in Ops("create_seedname") \cup Ops("send") :
         stream[calls[k].seedname.channel[3]].present
    /\ pc = "raised" => stream[call.channels[chIdx]].present
    /\ pc = "done" =>
         /\ chIdx = Len(call.channels) + 1
         /\ warnings = MissingOf(call.channels)
         /\ FlushedFrom(1) = TracesOf(call.channels)
         /\ Cardinality(Ops("close")) = 1
         /\ calls[Len(calls)].op = "close"
    /\ (Terminated /\ MissingOf(call.channels) = call.channels) =>
         /\ pc = "done"
         /\ Len(calls) = 2

C8_Witness ==
  /\ call.op = "put"
  /\ pc = "done"
  /\ call.channels = <<"E", "H">>
  /\ warnings = <<"E">>
  /\ Ops("send") # {}
  /\ Cardinality(Ops("close")) = 1

\* The location code of a type: the override when one is configured.
LocationOf(locationCode, type) ==
  IF locationCode # None THEN locationCode
  ELSE IF type = "variation" THEN "R0"
  ELSE IF type = "quasi-definitive" THEN "Q0"
  ELSE IF type = "definitive" THEN "D0"
  ELSE None

\* C9: the location passed to every getWaveform and create_seedname call
\* is never unset: it is the override when one is configured, else R0, Q0
\* or D0 by type; with no override and another type no such call is made.
C9_LocationNeverNull ==
  \A k \in Ops("getWaveform") \cup Ops("create_seedname") :
    /\ calls[k].seedname.location # None
    /\ calls[k].seedname.location = LocationOf(factory.locationCode, call.type)

\* C10: with the configured interval and the resolved interval of the call
\* both in {minute, second}, every send whose channel code starts with S
\* has at most 3600 samples, 1 s per sample; every send whose channel code
\* starts with M has at most 1440 samples, 60 s per sample.
C10_WindowFollowsResolvedInterval ==
  (/\ call.op = "put"
   /\ factory.interval \in {"minute", "second"}
   /\ call.interval \in {"minute", "second"})
    => \A k \in Ops("send") :
         LET rec == calls[k]
             code == rec.seedname.channel[1]
         IN /\ code = "S" =>
                 /\ rec.nsamp <= 3600
                 /\ rec.samplerate = <<1, 1>>
                 /\ rec.endtime = rec.starttime + (rec.nsamp - 1) * 1
            /\ code = "M" =>
                 /\ rec.nsamp <= 1440
                 /\ rec.samplerate = <<1, 60>>
                 /\ rec.endtime = rec.starttime + (rec.nsamp - 1) * 60

====
